---- MODULE Spec2Model ----
(***************************************************************************)
(* A model of src/script5.js: the canvas animation of atoms, snakes,       *)
(* photons, black holes and portals.                                       *)
(*                                                                         *)
(* Numbers.  The script computes in floating point.  Here every length is  *)
(* an integer number of ticks, UnitsPerPixel ticks to the pixel, so that   *)
(* GRAVITY (0.05 px) is one tick and growthRate (0.5 px) is ten.  Time is  *)
(* in milliseconds.                                                        *)
(*                                                                         *)
(* Headings.  An angle is kept as the quarter turn it lies in (0 = +x,     *)
(* 1 = +y, 2 = -x, 3 = -y) and a step moves along that axis.  One update   *)
(* turns a snake by at most 0.05 * pi (steering) or 0.1 rad (jitter), so   *)
(* after it the angle lies in the same quarter or in a neighbouring one;   *)
(* which one depends on the exact angle, and is a choice of the model.     *)
(*                                                                         *)
(* random() is an input: every value it decides (start positions, atom     *)
(* types, photon angles, jitter) is drawn from a small set.                *)
(***************************************************************************)
EXTENDS Integers, Sequences, FiniteSets, TLC

\* ---------------------------------------------------------------- units
UnitsPerPixel == 20
Px(n) == n * UnitsPerPixel

\* ------------------------------------------------- the script's constants
NUM_PORTALS == 3
SNAKE_LENGTH == 40
SNAKE_SIZE == 6
SPEED == 2
PHOTON_SPEED == 4
DISAPPEAR_TIME == 1000
GRAVITY == UnitsPerPixel \div 20

AtomRadius == 10
NormalPhotonCount == 5
SpecialPhotonCount == 15
PhotonMaxLife == 100
NormalPhotonSize == 3
SpecialPhotonSize == 5
NormalGrowth == 5
SpecialGrowth == 15
ShrinkSegments == 10
MinSnakeLength == 10
HoleMaxRadius == 50
HoleGrowthRate == UnitsPerPixel \div 2
HolePull == UnitsPerPixel \div 2
PortalRadius == 20

\* ------------------------------------------------------ bounds of the model
\* The script makes 75 atoms and 5 snakes; the model makes NumAtoms and
\* NumSnakes of them.
NumAtoms == 2
NumSnakes == 1
MaxSnakes == 2
MaxFrames == 2
MaxFramesLong == 112
MaxFramesSeek == 3

\* ------------------------------------------------------------ input sets
\* window.innerWidth x window.innerHeight, in pixels
Sizes == { <<100, 200>>, <<80, 180>> }
\* where random() puts the atoms, the snakes and the portals, in pixels
AtomSites == << <<10, 170>>, <<56, 100>>, <<14, 170>>, <<16, 174>> >>
SnakeSites == { <<12, 170>>, <<50, 100>> }
HomeSites == { <<12, 170>> }
PortalSites == << <<60, 100>>, <<70, 100>>, <<90, 30>> >>
ClickSites == { <<12, 168>>, <<50, 100>> }
\* the quarter turn of a new Snake's angle
BirthAngles == { 0 }
\* what one update may do to the quarter of a snake's angle: keep it (0) or
\* carry it into a neighbouring quarter
Turns == { 0, 1 }
Straight == { 0 }
\* milliseconds between two readings of performance.now() in animate
SlowFrames == { 1100 }
FastFrames == { 20 }
\* Atom.type with the hue drawn beside it
AtomKinds == { <<"normal", 270>>, <<"special", 300>> }
SnakeHue == 200
\* (random() - 0.5) * 10 for x and for y, in ticks
Jitters == { <<0, 0>>, <<Px(-5), Px(3)>> }
NoJitter == { <<0, 0>> }
\* the angles random() gives the photons of one atom, by photon index
Sprays == { [k \in 1 .. SpecialPhotonCount |-> 3],
            [k \in 1 .. SpecialPhotonCount |-> k % 4] }

\* --------------------------------------------------------------- helpers
Cos(a) == CASE a = 0 -> 1 [] a = 1 -> 0 [] a = 2 -> -1 [] OTHER -> 0
Sin(a) == CASE a = 0 -> 0 [] a = 1 -> 1 [] a = 2 -> 0 [] OTHER -> -1

Abs(n) == IF n < 0 THEN -n ELSE n

\* JavaScript's %: the remainder has the sign of the dividend
JsMod(a, b) == IF a >= 0 THEN a % b ELSE -((-a) % b)

\* the integer part of a quotient, as the fixed-point reading of a / b
Trunc(a, b) == IF a >= 0 THEN a \div b ELSE -((-a) \div b)

RECURSIVE SqrtBetween(_, _, _)
SqrtBetween(n, lo, hi) ==
    IF lo >= hi THEN lo
    ELSE LET mid == (lo + hi + 1) \div 2
         IN IF mid * mid <= n THEN SqrtBetween(n, mid, hi)
            ELSE SqrtBetween(n, lo, mid - 1)

Isqrt(n) == SqrtBetween(n, 0, 46340)

Point(x, y) == [x |-> x, y |-> y]

\* hypot(dx, dy) squared
Dist2(p, q) == (p.x - q.x) * (p.x - q.x) + (p.y - q.y) * (p.y - q.y)

\* hypot(p - q) < r
Closer(p, q, r) == r > 0 /\ Dist2(p, q) < r * r

RECURSIVE Repeat(_, _)
Repeat(v, n) == IF n <= 0 THEN << >> ELSE <<v>> \o Repeat(v, n - 1)

SeqRemove(s, i) == SubSeq(s, 1, i - 1) \o SubSeq(s, i + 1, Len(s))

\* Array.prototype.indexOf, 1-based; 0 when absent
IndexOfId(s, id) ==
    IF \E i \in 1 .. Len(s) : s[i].id = id
    THEN CHOOSE i \in 1 .. Len(s) :
            s[i].id = id /\ \A j \in 1 .. i - 1 : s[j].id # id
    ELSE 0

\* ------------------------------------------------------------------ Atom
\* Atom.state: 0 alive, 1 disintegrating, 2 gone
NewAtom(x, y, kind) ==
    [position |-> Point(x, y), state |-> 0, startTime |-> 0,
     hue |-> kind[2], radius |-> Px(AtomRadius), type |-> kind[1]]

\* ---------------------------------------------------------------- Photon
\* id stands for the identity of the object
NewPhoton(id, x, y, hue, type, angle) ==
    LET speed == IF type = "normal" THEN Px(PHOTON_SPEED)
                 ELSE (Px(PHOTON_SPEED) * 3) \div 2
    IN [id |-> id, position |-> Point(x, y),
        velocity |-> Point(Cos(angle) * speed, Sin(angle) * speed),
        hue |-> hue, life |-> 0, maxLife |-> PhotonMaxLife,
        size |-> IF type = "normal" THEN Px(NormalPhotonSize)
                 ELSE Px(SpecialPhotonSize),
        type |-> type]

\* ------------------------------------------------------------- BlackHole
NewBlackHole(x, y) ==
    [position |-> Point(x, y), radius |-> 0,
     maxRadius |-> Px(HoleMaxRadius), growthRate |-> HoleGrowthRate]

\* ---------------------------------------------------------------- Portal
\* partner is the index of the partner portal in portals; 0 is null
NewPortal(x, y) ==
    [position |-> Point(x, y), radius |-> Px(PortalRadius), partner |-> 0]

\* ----------------------------------------------------------------- Snake
\* target is the index of the target atom in atoms; 0 is null
NewSnake(startX, startY, angle) ==
    [hue |-> SnakeHue,
     positions |-> Repeat(Point(startX, startY), SNAKE_LENGTH),
     snakeLength |-> SNAKE_LENGTH, angle |-> angle, target |-> 0]

\* The objects the methods reach through the script's globals: a world is
\* [atoms, snakes, photons, blackHoles, portals, width, height, nextId].

\* Disintegrate that leaves the atom alive
DisintegrateStaysAlive(W, i, t, spray) ==
    LET a == W.atoms[i]
        photonCount == IF a.type = "normal" THEN NormalPhotonCount
                       ELSE SpecialPhotonCount
        fresh == [k \in 1 .. photonCount |->
                    NewPhoton(W.nextId + k - 1, a.position.x, a.position.y,
                              a.hue, a.type, spray[k])]
    IN [W EXCEPT
          !.atoms = [W.atoms EXCEPT ![i].startTime = t],
          !.photons = W.photons \o fresh,
          !.blackHoles = IF a.type = "special"
                         THEN Append(W.blackHoles,
                                     NewBlackHole(a.position.x, a.position.y))
                         ELSE W.blackHoles,
          !.nextId = W.nextId + photonCount]

\* Disintegrate with the photon count of a normal atom for every atom
DisintegrateFive(W, i, t, spray) ==
    LET a == W.atoms[i]
        fresh == [k \in 1 .. NormalPhotonCount |->
                    NewPhoton(W.nextId + k - 1, a.position.x, a.position.y,
                              a.hue, a.type, spray[k])]
    IN [W EXCEPT
          !.atoms = [W.atoms EXCEPT ![i].startTime = t, ![i].state = 1],
          !.photons = W.photons \o fresh,
          !.blackHoles = IF a.type = "special"
                         THEN Append(W.blackHoles,
                                     NewBlackHole(a.position.x, a.position.y))
                         ELSE W.blackHoles,
          !.nextId = W.nextId + NormalPhotonCount]

\* Atom.disintegrate(t) of atoms[i]; spray gives random() of each new Photon
Disintegrate(W, i, t, spray) ==
    LET a == W.atoms[i]
        photonCount == IF a.type = "normal" THEN NormalPhotonCount
                       ELSE SpecialPhotonCount
        fresh == [k \in 1 .. photonCount |->
                    NewPhoton(W.nextId + k - 1, a.position.x, a.position.y,
                              a.hue, a.type, spray[k])]
    IN [W EXCEPT
          !.atoms = [W.atoms EXCEPT ![i].startTime = t, ![i].state = 1],
          !.photons = W.photons \o fresh,
          !.blackHoles = IF a.type = "special"
                         THEN Append(W.blackHoles,
                                     NewBlackHole(a.position.x, a.position.y))
                         ELSE W.blackHoles,
          !.nextId = W.nextId + photonCount]

\* AtomDraw with alpha >= 1 in place of alpha > 1
AtomDrawAtThreshold(a, t) ==
    IF a.state = 0
    THEN [self |-> a,
          out |-> <<[shape |-> "arc", at |-> a.position, radius |-> a.radius,
                     hue |-> a.hue, fade |-> 0]>>]
    ELSE IF a.state = 1
    THEN LET dt == t - a.startTime
         IN IF dt >= DISAPPEAR_TIME
            THEN [self |-> [a EXCEPT !.state = 2], out |-> << >>]
            ELSE [self |-> a,
                  out |-> <<[shape |-> "arc", at |-> a.position,
                             radius |-> a.radius, hue |-> a.hue,
                             fade |-> dt]>>]
    ELSE [self |-> a, out |-> << >>]

\* Atom.draw(t): the atom after the call and what was put on the canvas
AtomDraw(a, t) ==
    IF a.state = 0
    THEN [self |-> a,
          out |-> <<[shape |-> "arc", at |-> a.position, radius |-> a.radius,
                     hue |-> a.hue, fade |-> 0]>>]
    ELSE IF a.state = 1
    THEN LET dt == t - a.startTime
         IN IF dt > DISAPPEAR_TIME
            THEN [self |-> [a EXCEPT !.state = 2], out |-> << >>]
            ELSE [self |-> a,
                  out |-> <<[shape |-> "arc", at |-> a.position,
                             radius |-> a.radius, hue |-> a.hue,
                             fade |-> dt]>>]
    ELSE [self |-> a, out |-> << >>]

\* Photon.draw()
PhotonDraw(p) ==
    [self |-> p,
     out |-> <<[shape |-> "arc", at |-> p.position, radius |-> p.size,
                hue |-> p.hue, fade |-> 0]>>]

\* BlackHole.draw()
BlackHoleDraw(h) ==
    [self |-> h,
     out |-> <<[shape |-> "gradient", at |-> h.position,
                radius |-> h.radius, hue |-> 0, fade |-> 0]>>]

\* Portal.draw()
PortalDraw(q) ==
    [self |-> q,
     out |-> <<[shape |-> "ring", at |-> q.position, radius |-> q.radius,
                hue |-> 300, fade |-> 0]>>]

\* SnakeDraw that takes the positions off the array as it draws them
SnakeDrawShifting(s) ==
    [self |-> [s EXCEPT !.positions = << >>],
     out |-> <<[shape |-> "stroke", at |-> s.positions,
                radius |-> Px(SNAKE_SIZE), hue |-> s.hue, fade |-> 0]>>]

\* Snake.draw()
SnakeDraw(s) ==
    [self |-> s,
     out |-> <<[shape |-> "stroke", at |-> s.positions,
                radius |-> Px(SNAKE_SIZE), hue |-> s.hue, fade |-> 0]>>]

\* --------------------------------------------------------- Photon.update
\* the portals.forEach of Photon.update, from portal j on: the position
\* after every portal from j on has looked at the photon
RECURSIVE PhotonPortals(_, _, _, _)
PhotonPortals(pos, portals, j, jit) ==
    IF j > Len(portals) THEN pos
    ELSE LET portal == portals[j]
             there == portals[portal.partner].position
         IN IF Closer(pos, portal.position, portal.radius)
            THEN PhotonPortals(Point(there.x + jit[1], there.y + jit[2]),
                               portals, j + 1, jit)
            ELSE PhotonPortals(pos, portals, j + 1, jit)

\* the photon's fields after update(), before the removal test
PhotonMove(p, portals, jit) ==
    LET at == PhotonPortals(p.position, portals, 1, jit)
    IN [p EXCEPT !.position = Point(at.x + p.velocity.x, at.y + p.velocity.y),
                 !.velocity = Point(p.velocity.x, p.velocity.y + GRAVITY),
                 !.life = p.life + 1]

\* PhotonExpired without the test of life
PhotonExpiredOffCanvas(p, width, height) ==
    \/ p.position.x < 0
    \/ p.position.x > width
    \/ p.position.y < 0
    \/ p.position.y > height

\* PhotonExpired with life >= maxLife in place of life > maxLife
PhotonExpiredAtCap(p, width, height) ==
    \/ p.life >= p.maxLife
    \/ p.position.x < 0
    \/ p.position.x > width
    \/ p.position.y < 0
    \/ p.position.y > height

\* the test that guards photons.splice
PhotonExpired(p, width, height) ==
    \/ p.life > p.maxLife
    \/ p.position.x < 0
    \/ p.position.x > width
    \/ p.position.y < 0
    \/ p.position.y > height

\* photons.splice(photons.indexOf(this), 1); indexOf gives -1 for an absent
\* object and splice(-1, 1) takes the last element
SpliceSelf(list, p) ==
    LET i == IndexOfId(list, p.id)
    IN IF i = 0 THEN SubSeq(list, 1, Len(list) - 1) ELSE SeqRemove(list, i)

\* Photon.update() of photons[k]: the list and the photons taken out of it
PhotonUpdate(list, k, portals, width, height, jit) ==
    LET p == PhotonMove(list[k], portals, jit)
        moved == [list EXCEPT ![k] = p]
    IN IF PhotonExpired(p, width, height)
       THEN [photons |-> SpliceSelf(moved, p), removed |-> <<p>>]
       ELSE [photons |-> moved, removed |-> << >>]

\* photons.forEach(photon => { photon.update(); photon.draw(); }) from index
\* k on.  forEach reads the length once, before the first call, and passes
\* over an index that is no longer in the array.
RECURSIVE PhotonForEach(_, _, _, _, _, _, _, _)
PhotonForEach(list, removed, k, len0, portals, width, height, jit) ==
    IF k > len0 THEN [photons |-> list, removed |-> removed]
    ELSE IF k > Len(list)
    THEN PhotonForEach(list, removed, k + 1, len0, portals, width, height, jit)
    ELSE LET r == PhotonUpdate(list, k, portals, width, height, jit)
             i == IndexOfId(r.photons, list[k].id)
             drawn == IF i = 0 THEN r.photons
                      ELSE [r.photons EXCEPT ![i] = PhotonDraw(r.photons[i]).self]
         IN PhotonForEach(drawn, removed \o r.removed, k + 1, len0,
                          portals, width, height, jit)

\* ------------------------------------------------------ BlackHole.update
\* cos(angle) * 0.5 and sin(angle) * 0.5 for angle = atan2(dy, dx)
Pull(dx, dy) ==
    IF dx = 0 /\ dy = 0 THEN Point(HolePull, 0)
    ELSE LET d == Isqrt(dx * dx + dy * dy)
         IN Point(Trunc(dx * HolePull, d), Trunc(dy * HolePull, d))

\* BlackHoleGrow with radius <= maxRadius in place of radius < maxRadius
BlackHoleGrowPastMax(h) ==
    IF h.radius <= h.maxRadius
    THEN [h EXCEPT !.radius = h.radius + h.growthRate]
    ELSE h

\* "if (this.radius < this.maxRadius) this.radius += this.growthRate"
BlackHoleGrow(h) ==
    IF h.radius < h.maxRadius
    THEN [h EXCEPT !.radius = h.radius + h.growthRate]
    ELSE h

\* "Attract photons", for one photon
Attract(h, p) ==
    IF Closer(h.position, p.position, h.radius)
    THEN LET f == Pull(h.position.x - p.position.x, h.position.y - p.position.y)
         IN [p EXCEPT !.velocity = Point(p.velocity.x + f.x, p.velocity.y + f.y)]
    ELSE p

\* BlackHole.update() of blackHoles[i]
BlackHoleUpdate(W, i) ==
    LET h == BlackHoleGrow(W.blackHoles[i])
    IN [W EXCEPT !.blackHoles[i] = h,
                 !.photons = [k \in 1 .. Len(W.photons) |->
                                 Attract(h, W.photons[k])]]

\* blackHoles.forEach(hole => { hole.update(); hole.draw(); }) from index i on
RECURSIVE BlackHoleForEach(_, _)
BlackHoleForEach(W, i) ==
    IF i > Len(W.blackHoles) THEN W
    ELSE LET U == BlackHoleUpdate(W, i)
         IN BlackHoleForEach(
                [U EXCEPT !.blackHoles[i] = BlackHoleDraw(U.blackHoles[i]).self],
                i + 1)

\* ----------------------------------------------------------------- Snake
\* Grow that reads the head where grow reads the tail
GrowFromHead(s, type) ==
    LET lengthToAdd == IF type = "normal" THEN NormalGrowth ELSE SpecialGrowth
        tail == s.positions[1]
    IN [s EXCEPT !.positions = s.positions \o Repeat(tail, lengthToAdd),
                 !.snakeLength = s.snakeLength + lengthToAdd]

\* Snake.grow(type)
Grow(s, type) ==
    LET lengthToAdd == IF type = "normal" THEN NormalGrowth ELSE SpecialGrowth
        tail == s.positions[Len(s.positions)]
    IN [s EXCEPT !.positions = s.positions \o Repeat(tail, lengthToAdd),
                 !.snakeLength = s.snakeLength + lengthToAdd]

\* Snake.shrink()
Shrink(s) ==
    LET n == Len(s.positions)
        kept == IF n > ShrinkSegments THEN n - ShrinkSegments ELSE 0
    IN [s EXCEPT !.positions = SubSeq(s.positions, 1, kept),
                 !.snakeLength = IF s.snakeLength - ShrinkSegments > MinSnakeLength
                                 THEN s.snakeLength - ShrinkSegments
                                 ELSE MinSnakeLength]

\* Seek with "dist > minDist": the farthest alive atom is kept
RECURSIVE SeekFarthest(_, _, _, _, _)
SeekFarthest(atoms, head, j, minD2, target) ==
    IF j > Len(atoms) THEN target
    ELSE LET d2 == Dist2(head, atoms[j].position)
         IN IF atoms[j].state = 0 /\ (minD2 < 0 \/ d2 > minD2)
            THEN SeekFarthest(atoms, head, j + 1, d2, j)
            ELSE SeekFarthest(atoms, head, j + 1, minD2, target)

\* the atoms.forEach that seeks a target, from atom j on; minD2 is the square
\* of minDist, -1 for Infinity
RECURSIVE Seek(_, _, _, _, _)
Seek(atoms, head, j, minD2, target) ==
    IF j > Len(atoms) THEN target
    ELSE LET d2 == Dist2(head, atoms[j].position)
         IN IF atoms[j].state = 0 /\ (minD2 < 0 \/ d2 < minD2)
            THEN Seek(atoms, head, j + 1, d2, j)
            ELSE Seek(atoms, head, j + 1, minD2, target)

\* the target after "Seek nearest atom if no target"
SeekTarget(s, atoms) ==
    IF s.target = 0 \/ atoms[s.target].state # 0
    THEN Seek(atoms, s.positions[1], 1, -1, s.target)
    ELSE s.target

\* the quarter turn of Math.atan2(dy, dx)
Quarter(dx, dy) ==
    IF dx = 0 /\ dy = 0 THEN 0
    ELSE IF Abs(dx) >= Abs(dy) THEN (IF dx >= 0 THEN 0 ELSE 2)
    ELSE (IF dy > 0 THEN 1 ELSE 3)

\* "Smooth turning": the angle moves towards the target's; it stays in its
\* quarter or (turn # 0) enters the next one on the side of the target
SteerAngle(angle, toward, turn) ==
    LET diff == (toward - angle + 4) % 4
    IN CASE diff = 0 -> angle
         [] diff = 1 -> IF turn = 0 THEN angle ELSE (angle + 1) % 4
         [] diff = 3 -> IF turn = 0 THEN angle ELSE (angle + 3) % 4
         [] OTHER -> (angle + turn + 4) % 4

\* "Random movement": turn is the quarter the jitter carries the angle into
JitterAngle(angle, turn) == (angle + turn + 4) % 4

\* the angle after "Adjust angle towards target"
TurnedAngle(s, atoms, target, turn) ==
    IF target # 0 /\ atoms[target].state = 0
    THEN LET head == s.positions[1]
             there == atoms[target].position
         IN SteerAngle(s.angle, Quarter(there.x - head.x, there.y - head.y), turn)
    ELSE JitterAngle(s.angle, turn)

\* newHead, wrapped around the canvas edges
WrappedHead(head, angle, width, height) ==
    Point(JsMod(head.x + Cos(angle) * Px(SPEED) + width, width),
          JsMod(head.y + Sin(angle) * Px(SPEED) + height, height))

\* EatAtoms without the test "atom.state === 0"
RECURSIVE EatAtomsAnyState(_, _, _, _, _, _)
EatAtomsAnyState(W, i, newHead, j, t, spray) ==
    IF j > Len(W.atoms) THEN W
    ELSE LET atom == W.atoms[j]
         IN IF Closer(newHead, atom.position, atom.radius + Px(SNAKE_SIZE) \div 2)
            THEN LET D == Disintegrate(W, j, t, spray)
                     G == IF Len(D.snakes[i].positions) = 0
                          THEN [D EXCEPT !.fault = TRUE]
                          ELSE [D EXCEPT !.snakes[i] = Grow(D.snakes[i], atom.type)]
                 IN EatAtomsAnyState([G EXCEPT !.snakes[i].target = 0],
                                     i, newHead, j + 1, t, spray)
            ELSE EatAtomsAnyState(W, i, newHead, j + 1, t, spray)

\* "Check collision with atoms", from atom j on, for snakes[i]
RECURSIVE EatAtoms(_, _, _, _, _, _)
EatAtoms(W, i, newHead, j, t, spray) ==
    IF j > Len(W.atoms) THEN W
    ELSE LET atom == W.atoms[j]
         IN IF /\ atom.state = 0
               /\ Closer(newHead, atom.position, atom.radius + Px(SNAKE_SIZE) \div 2)
            THEN LET D == Disintegrate(W, j, t, spray)
                     G == IF Len(D.snakes[i].positions) = 0
                          THEN [D EXCEPT !.fault = TRUE]
                          ELSE [D EXCEPT !.snakes[i] = Grow(D.snakes[i], atom.type)]
                 IN EatAtoms([G EXCEPT !.snakes[i].target = 0],
                             i, newHead, j + 1, t, spray)
            ELSE EatAtoms(W, i, newHead, j + 1, t, spray)

\* "Check collision with black holes", from hole j on, for snake s
RECURSIVE MeetHoles(_, _, _, _)
MeetHoles(s, holes, newHead, j) ==
    IF j > Len(holes) THEN s
    ELSE IF Closer(newHead, holes[j].position, holes[j].radius + Px(SNAKE_SIZE) \div 2)
    THEN MeetHoles(Shrink(s), holes, newHead, j + 1)
    ELSE MeetHoles(s, holes, newHead, j + 1)

\* "Check collision with portals", from portal j on: newHead afterwards
RECURSIVE SnakePortals(_, _, _, _)
SnakePortals(newHead, portals, j, jit) ==
    IF j > Len(portals) THEN newHead
    ELSE LET portal == portals[j]
             there == portals[portal.partner].position
         IN IF Closer(newHead, portal.position, portal.radius + Px(SNAKE_SIZE) \div 2)
            THEN SnakePortals(Point(there.x + jit[1], there.y + jit[2]),
                              portals, j + 1, jit)
            ELSE SnakePortals(newHead, portals, j + 1, jit)

\* Advance with the pop done whatever the length
AdvancePopAlways(s, newHead) ==
    [s EXCEPT !.positions = SubSeq(<<newHead>> \o s.positions, 1,
                                   Len(s.positions))]

\* Advance without the pop
AdvanceNoPop(s, newHead) ==
    [s EXCEPT !.positions = <<newHead>> \o s.positions]

\* positions.unshift(newHead) and the pop that follows it
Advance(s, newHead) ==
    LET longer == <<newHead>> \o s.positions
    IN [s EXCEPT !.positions = IF Len(longer) > s.snakeLength
                               THEN SubSeq(longer, 1, Len(longer) - 1)
                               ELSE longer]

\* Snake.update() of snakes[i]; t is performance.now()
SnakeUpdate(W, i, turn, jit, t, spray) ==
    LET s == W.snakes[i]
    IN IF Len(s.positions) = 0 THEN [W EXCEPT !.fault = TRUE]
       ELSE
       LET target == SeekTarget(s, W.atoms)
           angle == TurnedAngle(s, W.atoms, target, turn)
           newHead == WrappedHead(s.positions[1], angle, W.width, W.height)
           aimed == [W EXCEPT !.snakes[i].target = target,
                              !.snakes[i].angle = angle]
           eaten == EatAtoms(aimed, i, newHead, 1, t, spray)
           shrunk == MeetHoles(eaten.snakes[i], eaten.blackHoles, newHead, 1)
           moved == SnakePortals(newHead, W.portals, 1, jit)
       IN [eaten EXCEPT !.snakes[i] = Advance(shrunk, moved)]

\* snakes.forEach(snake => { snake.update(); snake.draw(); }) from snake i on;
\* a TypeError thrown by an update ends the loop
RECURSIVE SnakeForEach(_, _, _, _, _, _)
SnakeForEach(W, i, turns, jit, t, spray) ==
    IF i > Len(W.snakes) \/ W.fault THEN W
    ELSE LET U == SnakeUpdate(W, i, turns[i], jit, t, spray)
         IN SnakeForEach([U EXCEPT !.snakes[i] = SnakeDraw(U.snakes[i]).self],
                         i + 1, turns, jit, t, spray)

\* atoms.forEach(atom => atom.draw(currentTime))
AtomForEach(atoms, currentTime) ==
    [j \in 1 .. Len(atoms) |-> AtomDraw(atoms[j], currentTime).self]

\* portals.forEach(portal => portal.draw())
PortalForEach(portals) ==
    [j \in 1 .. Len(portals) |-> PortalDraw(portals[j]).self]

\* ------------------------------------------------------------- the state
VARIABLES
    width, height,  \* the canvas, in ticks
    atoms, snakes, photons, blackHoles, portals,  \* the script's arrays
    nextId,         \* the identity of the next Photon object
    fault,          \* a TypeError was thrown (a read of positions[0] or of
                    \* the tail of an empty positions array)
    clock,          \* performance.now() at its last reading
    pc,             \* where animate stands, "idle" between two frames
    rafPending,     \* frames requested and not yet started
    frames,         \* frames started
    removed         \* the photons the last photon pass spliced out, as they
                    \* were at that moment

vars == <<width, height, atoms, snakes, photons, blackHoles, portals, nextId,
          fault, clock, pc, rafPending, frames, removed>>

World ==
    [atoms |-> atoms, snakes |-> snakes, photons |-> photons,
     blackHoles |-> blackHoles, portals |-> portals, width |-> width,
     height |-> height, nextId |-> nextId, fault |-> fault]

\* AssignPartners without the "% portals.length": the last portal is left
\* without a partner of the list and points at itself
AssignPartnersNoWrap(list) ==
    [i \in 1 .. Len(list) |->
        [list[i] EXCEPT !.partner = IF i < Len(list) THEN i + 1 ELSE i]]

\* "Assign partners to portals"
AssignPartners(list) ==
    [i \in 1 .. Len(list) |->
        [list[i] EXCEPT !.partner = (i % Len(list)) + 1]]

\* init(): resizeCanvas, the arrays filled, then animate() is entered;
\* snakeSites is where random() may put a snake
InitAt(snakeSites) ==
    /\ \E size \in Sizes :
          /\ width = Px(size[1])
          /\ height = Px(size[2])
          /\ \A j \in 1 .. NumAtoms :
                AtomSites[j][1] < size[1] /\ AtomSites[j][2] < size[2]
          /\ \A j \in 1 .. NUM_PORTALS :
                PortalSites[j][1] < size[1] /\ PortalSites[j][2] < size[2]
    /\ \E kinds \in [1 .. NumAtoms -> AtomKinds] :
          atoms = [j \in 1 .. NumAtoms |->
                     NewAtom(Px(AtomSites[j][1]), Px(AtomSites[j][2]), kinds[j])]
    /\ \E sites \in [1 .. NumSnakes -> snakeSites],
          angles \in [1 .. NumSnakes -> BirthAngles] :
          snakes = [i \in 1 .. NumSnakes |->
                      NewSnake(Px(sites[i][1]), Px(sites[i][2]), angles[i])]
    /\ portals = AssignPartners(
                    [j \in 1 .. NUM_PORTALS |->
                        NewPortal(Px(PortalSites[j][1]), Px(PortalSites[j][2]))])
    /\ photons = << >>
    /\ blackHoles = << >>
    /\ nextId = 1
    /\ fault = FALSE
    /\ clock = 0
    /\ pc = "holes"
    /\ rafPending = 0
    /\ frames = 1
    /\ removed = << >>

Init == InitAt(HomeSites)

InitLong == InitAt(SnakeSites)

\* ----------------------------------------------------------- the actions
\* animate, up to the end of blackHoles.forEach
BlackHolePass ==
    /\ pc = "holes"
    /\ LET U == BlackHoleForEach(World, 1)
       IN /\ blackHoles' = U.blackHoles
          /\ photons' = U.photons
    /\ pc' = "atoms"
    /\ UNCHANGED <<width, height, atoms, snakes, portals, nextId, fault, clock,
                   rafPending, frames, removed>>

\* currentTime = performance.now() and atoms.forEach
AtomPass(gaps) ==
    /\ pc = "atoms"
    /\ \E gap \in gaps :
          /\ clock' = clock + gap
          /\ atoms' = AtomForEach(atoms, clock + gap)
    /\ pc' = "snakes"
    /\ UNCHANGED <<width, height, snakes, photons, blackHoles, portals, nextId,
                   fault, rafPending, frames, removed>>

\* snakes.forEach; a TypeError leaves animate without a next frame requested.
\* The snakes of one frame are given the same turn, jitter and spray.
SnakePass(turnSet, jitters) ==
    /\ pc = "snakes"
    /\ \E turn \in turnSet, jit \in jitters, spray \in Sprays :
          LET turns == [i \in 1 .. Len(snakes) |-> turn]
              U == SnakeForEach(World, 1, turns, jit, clock, spray)
          IN /\ atoms' = U.atoms
             /\ snakes' = U.snakes
             /\ photons' = U.photons
             /\ blackHoles' = U.blackHoles
             /\ nextId' = U.nextId
             /\ fault' = U.fault
             /\ pc' = IF U.fault THEN "idle" ELSE "photons"
    /\ UNCHANGED <<width, height, portals, clock, rafPending, frames,
                   removed>>

\* photons.forEach
PhotonPass(jitters) ==
    /\ pc = "photons"
    /\ \E jit \in jitters :
          LET r == PhotonForEach(photons, << >>, 1, Len(photons), portals,
                                 width, height, jit)
          IN /\ photons' = r.photons
             /\ removed' = r.removed
    /\ pc' = "portals"
    /\ UNCHANGED <<width, height, atoms, snakes, blackHoles, portals, nextId,
                   fault, clock, rafPending, frames>>

\* portals.forEach
PortalPass ==
    /\ pc = "portals"
    /\ portals' = PortalForEach(portals)
    /\ pc' = "request"
    /\ UNCHANGED <<width, height, atoms, snakes, photons, blackHoles, nextId,
                   fault, clock, rafPending, frames, removed>>

\* RequestFrame with requestAnimationFrame called twice
RequestTwoFrames ==
    /\ pc = "request"
    /\ rafPending' = rafPending + 2
    /\ pc' = "idle"
    /\ UNCHANGED <<width, height, atoms, snakes, photons, blackHoles, portals,
                   nextId, fault, clock, frames, removed>>

\* requestAnimationFrame(animate), and animate returns
RequestFrame ==
    /\ pc = "request"
    /\ rafPending' = rafPending + 1
    /\ pc' = "idle"
    /\ UNCHANGED <<width, height, atoms, snakes, photons, blackHoles, portals,
                   nextId, fault, clock, frames, removed>>

\* the browser calls animate for a requested frame
FrameCallback(maxFrames) ==
    /\ pc = "idle"
    /\ rafPending > 0
    /\ frames < maxFrames
    /\ rafPending' = rafPending - 1
    /\ frames' = frames + 1
    /\ pc' = "holes"
    /\ UNCHANGED <<width, height, atoms, snakes, photons, blackHoles, portals,
                   nextId, fault, clock, removed>>

\* AddSnakeAt that leaves the new Snake where its constructor put it
AddSnakeAtBirth(x, y, angle) ==
    Append(snakes, NewSnake(0, 0, angle))

\* addSnakeAt(x, y): a new Snake whose positions are all the click's
AddSnakeAt(x, y, angle) ==
    LET snake == NewSnake(0, 0, angle)
    IN Append(snakes,
              [snake EXCEPT !.positions = Repeat(Point(x, y), snake.snakeLength)])

\* the click listener
Click ==
    /\ pc = "idle"
    /\ Len(snakes) < MaxSnakes
    /\ \E site \in ClickSites, angle \in BirthAngles :
          snakes' = AddSnakeAt(Px(site[1]), Px(site[2]), angle)
    /\ UNCHANGED <<width, height, atoms, photons, blackHoles, portals, nextId,
                   fault, clock, pc, rafPending, frames, removed>>

\* resizeCanvas, as the resize listener
Resize ==
    /\ pc = "idle"
    /\ \E size \in Sizes :
          /\ width' = Px(size[1])
          /\ height' = Px(size[2])
    /\ UNCHANGED <<atoms, snakes, photons, blackHoles, portals, nextId, fault,
                   clock, pc, rafPending, frames, removed>>

Next ==
    \/ BlackHolePass
    \/ AtomPass(SlowFrames)
    \/ SnakePass(Turns, Jitters)
    \/ PhotonPass(Jitters)
    \/ PortalPass
    \/ RequestFrame
    \/ FrameCallback(MaxFrames)
    \/ Click
    \/ Resize

Spec == Init /\ [][Next]_vars

\* the same program run for many frames: every snake keeps its quarter and
\* frames come 20 ms apart
NextLong ==
    \/ BlackHolePass
    \/ AtomPass(FastFrames)
    \/ SnakePass(Straight, NoJitter)
    \/ PhotonPass(NoJitter)
    \/ PortalPass
    \/ RequestFrame
    \/ FrameCallback(MaxFramesLong)

SpecLong == InitLong /\ [][NextLong]_vars

\* the same program run for a few frames 20 ms apart, with clicks
NextSeek ==
    \/ BlackHolePass
    \/ AtomPass(FastFrames)
    \/ SnakePass(Turns, NoJitter)
    \/ PhotonPass(NoJitter)
    \/ PortalPass
    \/ RequestFrame
    \/ FrameCallback(MaxFramesSeek)
    \/ Click

SpecSeek == Init /\ [][NextSeek]_vars

\* a step of NextLong, told by where animate stands before and after it: a
\* frame that has started runs its passes one after the other to the
\* request of the next frame (a TypeError in the snake pass ends it
\* there), and the browser calls a frame that was requested
FrameGoesOn ==
    \/ pc = "holes" /\ pc' = "atoms"
    \/ pc = "atoms" /\ pc' = "snakes"
    \/ pc = "snakes" /\ pc' \in {"photons", "idle"}
    \/ pc = "photons" /\ pc' = "portals"
    \/ pc = "portals" /\ pc' = "request"
    \/ pc = "request" /\ pc' = "idle"
    \/ pc = "idle" /\ rafPending > 0 /\ frames < MaxFramesLong /\ pc' = "holes"

\* SpecLong with every frame running to its end and the browser calling
\* every frame that was requested
SpecLongFair == SpecLong /\ WF_pc(FrameGoesOn)

\* ------------------------------------------------------------ the claims
Inside(p) ==
    /\ 0 <= p.position.x
    /\ p.position.x <= width
    /\ 0 <= p.position.y
    /\ p.position.y <= height

\* C1: every snake's position sequence has at least 10 elements, in every
\* reachable state.
C1_SnakeLengthAtLeast10 ==
    \A i \in 1 .. Len(snakes) : Len(snakes[i].positions) >= 10

\* C2: in a photon pass, every photon that is in the list when the pass
\* starts and is still in it when the pass ends was updated exactly once
\* (an update adds one to life), whatever was removed in between.
C2_NoPhotonPassedOver ==
    [][pc = "photons" =>
          \A k \in 1 .. Len(photons) :
             LET i == IndexOfId(photons', photons[k].id)
             IN i # 0 => photons'[i].life = photons[k].life + 1]_vars

\* C3: a photon's life never decreases; photons leave the list only in the
\* photon pass; each photon taken out was in the list, is taken out once,
\* alone, in the update that carried its life past 100 (to 101) or its
\* position out of the canvas; and a photon that was updated and stays has
\* life <= 100 and lies within the canvas.
C3_PhotonRemoval ==
    [][/\ \A k \in 1 .. Len(photons) :
             LET i == IndexOfId(photons', photons[k].id)
             IN /\ i = 0 => pc = "photons"
                /\ i # 0 => photons'[i].life >= photons[k].life
                /\ (i # 0 /\ photons'[i].life > photons[k].life) =>
                      /\ photons'[i].life <= 100
                      /\ 0 <= photons'[i].position.x
                      /\ photons'[i].position.x <= width
                      /\ 0 <= photons'[i].position.y
                      /\ photons'[i].position.y <= height
       /\ pc = "photons" =>
             /\ Len(photons') + Len(removed') = Len(photons)
             /\ \A k \in 1 .. Len(photons') :
                   IndexOfId(photons, photons'[k].id) # 0
             /\ \A n \in 1 .. Len(removed') :
                   LET r == removed'[n]
                       k == IndexOfId(photons, r.id)
                   IN /\ k # 0
                      /\ IndexOfId(photons', r.id) = 0
                      /\ \A m \in 1 .. Len(removed') : removed'[m].id = r.id => m = n
                      /\ r.life = photons[k].life + 1
                      /\ photons[k].life <= 100
                      /\ \/ r.life > 100
                         \/ r.position.x < 0
                         \/ r.position.x > width
                         \/ r.position.y < 0
                         \/ r.position.y > height]_vars

\* a pass has just taken out a photon that is within the canvas, for its life
C3_Witness ==
    /\ pc = "portals"
    /\ \E n \in 1 .. Len(removed) : removed[n].life = 101 /\ Inside(removed[n])
    /\ \E k \in 1 .. Len(photons) : photons[k].life = 100

\* the partner reached from portal i by n links
RECURSIVE Follow(_, _)
Follow(i, n) == IF n = 0 THEN i ELSE Follow(portals[i].partner, n - 1)

\* C4: in every state after init, whatever frames, clicks and resizes came
\* since, every portal has a partner, the partner of portal i is portal
\* (i + 1) mod N, N links lead back to the portal they start from, and no
\* portal is its own partner.
C4_PortalRing ==
    /\ Len(portals) = 3
    /\ \A i \in 1 .. Len(portals) :
          /\ portals[i].partner \in 1 .. Len(portals)
          /\ portals[i].partner = (i % Len(portals)) + 1
          /\ portals[i].partner # i
          /\ Follow(i, Len(portals)) = i

\* a second frame has run, on a resized canvas, with a clicked snake
C4_Witness ==
    /\ pc = "idle"
    /\ frames = 2
    /\ Len(snakes) = NumSnakes + 1
    /\ width = Px(80)

\* C5: a black hole starts with radius 0; a black hole pass adds 0.5 px to a
\* radius below 50 px and leaves a radius of 50 px alone; nothing else
\* changes a radius, so it never decreases and never exceeds 50 px; and no
\* black hole leaves the list.
C5_RadiusGrowsToMax ==
    [][/\ Len(blackHoles') >= Len(blackHoles)
       /\ \A i \in 1 .. Len(blackHoles') :
             IF i > Len(blackHoles)
             THEN blackHoles'[i].radius = 0
             ELSE LET r == blackHoles[i].radius
                      after == blackHoles'[i].radius
                  IN /\ after >= r
                     /\ after <= 50 * UnitsPerPixel
                     /\ pc = "holes" =>
                           after = IF r < 50 * UnitsPerPixel
                                   THEN r + UnitsPerPixel \div 2 ELSE r
                     /\ pc # "holes" => after = r]_vars

\* a black hole at its maximum has been through one more pass
C5_Witness ==
    /\ pc = "atoms"
    /\ frames >= 102
    /\ \E i \in 1 .. Len(blackHoles) : blackHoles[i].radius = 50 * UnitsPerPixel

\* the atoms a step disintegrates
Eaten == { j \in 1 .. Len(atoms) : atoms[j].state = 0 /\ atoms'[j].state = 1 }

\* C6: Atom.disintegrate(t) adds 5 photons and no black hole for a normal
\* atom, 15 photons and 1 black hole for a special one, all at the atom's
\* position, the photons with the atom's hue and type and life 0, the hole
\* with radius 0; the atom becomes disintegrating with start time t; and no
\* photon, black hole or snake that existed and no other atom is changed.
\* Stated of the method at every atom of every reachable state, and of the
\* snake pass, where the method is called.
C6_Disintegrate ==
    [][/\ \A j \in 1 .. Len(atoms) : \A spray \in Sprays :
             LET D == Disintegrate(World, j, clock, spray)
                 n == IF atoms[j].type = "normal" THEN 5 ELSE 15
             IN /\ Len(D.photons) = Len(photons) + n
                /\ SubSeq(D.photons, 1, Len(photons)) = photons
                /\ \A k \in Len(photons) + 1 .. Len(D.photons) :
                      /\ D.photons[k].position = atoms[j].position
                      /\ D.photons[k].hue = atoms[j].hue
                      /\ D.photons[k].type = atoms[j].type
                      /\ D.photons[k].life = 0
                /\ D.blackHoles =
                      IF atoms[j].type = "special"
                      THEN blackHoles \o
                           <<[position |-> atoms[j].position, radius |-> 0,
                              maxRadius |-> 50 * UnitsPerPixel,
                              growthRate |-> UnitsPerPixel \div 2]>>
                      ELSE blackHoles
                /\ D.atoms = [atoms EXCEPT ![j].state = 1, ![j].startTime = clock]
                /\ D.snakes = snakes
                /\ D.portals = portals
       /\ Eaten # {} => pc = "snakes"
       /\ pc = "snakes" =>
             /\ SubSeq(photons', 1, Len(photons)) = photons
             /\ SubSeq(blackHoles', 1, Len(blackHoles)) = blackHoles
             /\ \A j \in 1 .. Len(atoms) :
                   atoms'[j] = IF j \in Eaten
                               THEN [atoms[j] EXCEPT !.state = 1, !.startTime = clock]
                               ELSE atoms[j]
             /\ \A j \in Eaten :
                   /\ Cardinality({k \in Len(photons) + 1 .. Len(photons') :
                                     /\ photons'[k].position = atoms[j].position
                                     /\ photons'[k].hue = atoms[j].hue
                                     /\ photons'[k].type = atoms[j].type
                                     /\ photons'[k].life = 0})
                         = IF atoms[j].type = "normal" THEN 5 ELSE 15
                   /\ Cardinality({k \in Len(blackHoles) + 1 .. Len(blackHoles') :
                                     /\ blackHoles'[k].position = atoms[j].position
                                     /\ blackHoles'[k].radius = 0})
                         = IF atoms[j].type = "special" THEN 1 ELSE 0
             /\ \A k \in Len(photons) + 1 .. Len(photons') :
                   \E j \in Eaten : photons'[k].position = atoms[j].position
             /\ \A k \in Len(blackHoles) + 1 .. Len(blackHoles') :
                   \E j \in Eaten : blackHoles'[k].position = atoms[j].position]_vars

\* a special atom has just been disintegrated, in a list that held the
\* photons of a normal one
C6_Witness ==
    /\ pc = "photons"
    /\ Len(photons) = 20
    /\ Len(blackHoles) = 1
    /\ \E j, k \in 1 .. Len(atoms) :
          /\ atoms[j].state = 2 /\ atoms[j].type = "normal"
          /\ atoms[k].state = 1 /\ atoms[k].type = "special"
          /\ atoms[k].startTime = clock

\* C7: an atom's state moves only from alive to disintegrating (in a snake
\* pass) and from disintegrating to gone (in an atom pass); the draw at time
\* t of a disintegrating atom with start time t0 makes it gone exactly when
\* t - t0 > 1000; a gone atom stays gone, and its draw puts out nothing.
C7_AtomLifecycle ==
    [][\A j \in 1 .. Len(atoms) :
          LET before == atoms[j].state
              after == atoms'[j].state
          IN /\ after = before \/ after = before + 1
             /\ after \in {0, 1, 2}
             /\ (before = 0 /\ after = 1) => pc = "snakes"
             /\ (before = 1 /\ after = 2) => pc = "atoms"
             /\ (pc = "atoms" /\ before = 1) =>
                   (after = 2 <=> clock' - atoms[j].startTime > 1000)
             /\ before = 1 => atoms'[j].startTime = atoms[j].startTime
             /\ after = 2 => AtomDraw(atoms'[j], clock').out = << >>
             /\ (pc = "atoms" /\ before = 1 /\ after = 2) =>
                   AtomDraw(atoms[j], clock').out = << >>]_vars

\* an atom went at the first draw after the one at exactly t0 + 1000
C7_Witness ==
    /\ pc = "snakes"
    /\ \E j \in 1 .. Len(atoms) :
          atoms[j].state = 2 /\ clock - atoms[j].startTime = 1020

\* C8: Snake.grow(type) adds 5 (normal) or 15 (special) to snakeLength and
\* appends that many copies of the old tail to positions, leaving the old
\* positions and the other fields as they were.  Stated of the method at
\* every snake of every reachable state.
C8_Grow ==
    \A i \in 1 .. Len(snakes) : \A type \in {"normal", "special"} :
       LET s == snakes[i]
           len == Len(s.positions)
           n == IF type = "normal" THEN 5 ELSE 15
           G == Grow(s, type)
       IN len > 0 =>
             /\ G.snakeLength = s.snakeLength + n
             /\ Len(G.positions) = len + n
             /\ SubSeq(G.positions, 1, len) = s.positions
             /\ \A k \in len + 1 .. len + n : G.positions[k] = s.positions[len]
             /\ G.angle = s.angle
             /\ G.target = s.target
             /\ G.hue = s.hue

\* a snake that has moved and grown: its head is not where its tail is
C8_Witness ==
    \E i \in 1 .. Len(snakes) :
       /\ snakes[i].snakeLength = 55
       /\ Len(snakes[i].positions) = 55
       /\ snakes[i].positions[1] # snakes[i].positions[55]
       /\ snakes[i].positions[41] = snakes[i].positions[55]
       /\ frames = 2

\* C9 as claimed: no draw changes any state; in particular the atom pass,
\* which only draws, leaves atoms as it was.
C9_NoDrawChangesState ==
    [][/\ pc = "atoms" => atoms' = atoms
       /\ pc = "portals" => portals' = portals
       /\ \A i \in 1 .. Len(snakes) : SnakeDraw(snakes[i]).self = snakes[i]
       /\ \A k \in 1 .. Len(photons) : PhotonDraw(photons[k]).self = photons[k]
       /\ \A i \in 1 .. Len(blackHoles) :
             BlackHoleDraw(blackHoles[i]).self = blackHoles[i]]_vars

\* C9 as amended: the draws of Photon, Snake, BlackHole and Portal change
\* nothing; Atom.draw(t) changes nothing but the state of a disintegrating
\* atom, to gone, when t - startTime > 1000; and a draw repeated at the same
\* t puts out what the first put out.
C9_DrawChangesOnlyFadedAtom ==
    [][/\ pc = "atoms" =>
             \A j \in 1 .. Len(atoms) :
                /\ atoms'[j] =
                      IF atoms[j].state = 1 /\ clock' - atoms[j].startTime > 1000
                      THEN [atoms[j] EXCEPT !.state = 2]
                      ELSE atoms[j]
                /\ AtomDraw(atoms'[j], clock').self = atoms'[j]
                /\ AtomDraw(atoms'[j], clock').out = AtomDraw(atoms[j], clock').out
       /\ pc = "atoms" => Len(atoms') = Len(atoms)
       /\ pc = "portals" => portals' = portals
       /\ \A i \in 1 .. Len(snakes) : SnakeDraw(snakes[i]).self = snakes[i]
       /\ \A k \in 1 .. Len(photons) : PhotonDraw(photons[k]).self = photons[k]
       /\ \A i \in 1 .. Len(blackHoles) :
             BlackHoleDraw(blackHoles[i]).self = blackHoles[i]]_vars

\* an atom pass has made an atom gone, with snakes, photons and a black hole
\* to draw
C9_Witness ==
    /\ pc = "snakes"
    /\ \E j \in 1 .. Len(atoms) : atoms[j].state = 2
    /\ Len(photons) > 0
    /\ Len(blackHoles) > 0

\* C10: a frame runs its passes in the order black holes, atoms, snakes,
\* photons, portals and then requests one frame; a frame is requested
\* nowhere else, so at most one is pending; and the click and resize
\* handlers (a snake added, the canvas resized) run only between frames.
C10_FrameOrder ==
    [][/\ pc = "holes" => pc' = "atoms"
       /\ pc = "atoms" => pc' = "snakes"
       /\ pc = "snakes" => pc' = "photons"
       /\ pc = "photons" => pc' = "portals"
       /\ pc = "portals" => pc' = "request"
       /\ pc = "request" => pc' = "idle" /\ rafPending' = rafPending + 1
       /\ pc = "idle" => pc' = "idle" \/ (pc' = "holes" /\ rafPending' = rafPending - 1)
       /\ pc # "request" => rafPending' <= rafPending
       /\ rafPending' \in {0, 1}
       /\ pc' = "idle" => rafPending' = 1
       /\ Len(snakes') # Len(snakes) => pc = "idle" /\ pc' = "idle"
       /\ (width' # width \/ height' # height) => pc = "idle" /\ pc' = "idle"
       /\ pc # "holes" => \A i \in 1 .. Len(blackHoles) :
                             blackHoles'[i].radius = blackHoles[i].radius
       /\ pc # "atoms" => clock' = clock
       /\ pc # "snakes" => \A i \in 1 .. Len(snakes) : snakes'[i] = snakes[i]
       /\ pc # "photons" => \A k \in 1 .. Len(photons) :
                               k <= Len(photons') /\ photons'[k].life = photons[k].life
       ]_vars

\* a second frame has gone through, after a click
C10_Witness ==
    /\ pc = "idle"
    /\ rafPending = 1
    /\ frames = 2
    /\ Len(snakes) > NumSnakes
    /\ Len(photons) > 0

\* C11: a click adds one snake, the last of the list, with 40 positions all
\* at the click, snakeLength 40 and no target, and leaves the other snakes,
\* the atoms, the photons, the black holes and the portals as they were; no
\* step makes the snake list shorter.
C11_ClickAddsOneSnake ==
    [][/\ Len(snakes') >= Len(snakes)
       /\ Len(snakes') # Len(snakes) =>
             /\ Len(snakes') = Len(snakes) + 1
             /\ SubSeq(snakes', 1, Len(snakes)) = snakes
             /\ LET new == snakes'[Len(snakes')]
                IN /\ Len(new.positions) = 40
                   /\ \E site \in ClickSites :
                         \A n \in 1 .. Len(new.positions) :
                            new.positions[n] = Point(Px(site[1]), Px(site[2]))
                   /\ new.snakeLength = 40
                   /\ new.target = 0
             /\ atoms' = atoms
             /\ photons' = photons
             /\ blackHoles' = blackHoles
             /\ portals' = portals]_vars

\* a click has added a snake while photons and a black hole were about
C11_Witness ==
    /\ Len(snakes) = NumSnakes + 1
    /\ snakes[Len(snakes)].positions[1] = Point(Px(50), Px(100))
    /\ snakes[Len(snakes)].positions[40] = Point(Px(50), Px(100))
    /\ Len(photons) > 0
    /\ Len(blackHoles) > 0

\* within the jitter, 5 pixels on each axis, of a portal's position
AtPortal(pos, j) ==
    /\ Abs(pos.x - portals[j].position.x) <= Px(5)
    /\ Abs(pos.y - portals[j].position.y) <= Px(5)

\* the first portal of portals.forEach that has pos within reach, 0 if none
PortalEntered(pos, extra) ==
    IF \E j \in 1 .. Len(portals) :
          Closer(pos, portals[j].position, portals[j].radius + extra)
    THEN CHOOSE j \in 1 .. Len(portals) :
            /\ Closer(pos, portals[j].position, portals[j].radius + extra)
            /\ \A n \in 1 .. j - 1 :
                  ~Closer(pos, portals[n].position, portals[n].radius + extra)
    ELSE 0

\* a photon as the photon pass left it, in the list or among the removed
PhotonAfter(id) ==
    IF IndexOfId(photons', id) # 0 THEN photons'[IndexOfId(photons', id)]
    ELSE removed'[IndexOfId(removed', id)]

\* C12: a photon that is within the radius of portal P when its update
\* starts is, when the update's portal loop ends (before velocity is
\* added), within the jitter of P's partner.
C12_PhotonArrivesAtPartner ==
    [][pc = "photons" =>
          \A k \in 1 .. Len(photons) :
             LET p == photons[k]
                 q == PhotonAfter(p.id)
                 P == PortalEntered(p.position, 0)
                 at == Point(q.position.x - p.velocity.x,
                             q.position.y - p.velocity.y)
             IN (q.life = p.life + 1 /\ P # 0) =>
                   AtPortal(at, portals[P].partner)]_vars

\* C13: a snake whose wrapped new head is within teleport distance of
\* portal P gets, as the head put in front of positions, a point within the
\* jitter of P's partner.
C13_SnakeArrivesAtPartner ==
    [][(pc = "snakes" /\ ~fault') =>
          \A i \in 1 .. Len(snakes) :
             LET newHead == WrappedHead(snakes[i].positions[1],
                                        snakes'[i].angle, width, height)
                 P == PortalEntered(newHead, Px(SNAKE_SIZE) \div 2)
             IN P # 0 => AtPortal(snakes'[i].positions[1],
                                  portals[P].partner)]_vars

\* the atoms as snakes[i] finds them in a snake pass: the snakes before it
\* in the list have been updated
AtomsBefore(i, turn) ==
    SnakeForEach([World EXCEPT !.snakes = SubSeq(snakes, 1, i - 1)], 1,
                 [n \in 1 .. i - 1 |-> turn], <<0, 0>>, clock,
                 [k \in 1 .. SpecialPhotonCount |-> 0]).atoms

\* quarter turns between two headings, the short way round
QuartersApart(a, b) ==
    IF (a - b + 4) % 4 <= (b - a + 4) % 4 THEN (a - b + 4) % 4
    ELSE (b - a + 4) % 4

\* C14: in Snake.update, a snake without an alive target takes as target an
\* alive atom nearest to its head when there is one; a snake whose target
\* is alive keeps it; a snake whose target is then alive never turns away
\* from it, and a snake without an alive target turns as random() says,
\* whatever the atoms are.
C14_SeekAndSteer ==
    pc = "snakes" =>
       \A turn \in Turns : \A i \in 1 .. Len(snakes) :
          LET found == AtomsBefore(i, turn)
              s == snakes[i]
              head == s.positions[1]
              alive == { j \in 1 .. Len(found) : found[j].state = 0 }
              stale == s.target = 0 \/ found[s.target].state # 0
              t == SeekTarget(s, found)
              angle == TurnedAngle(s, found, t, turn)
          IN /\ (stale /\ alive # {}) =>
                   /\ t \in alive
                   /\ \A j \in alive :
                         Dist2(head, found[t].position) <=
                            Dist2(head, found[j].position)
             /\ (stale /\ alive = {}) => t = s.target
             /\ ~stale => t = s.target
             /\ t \in alive =>
                   LET toward == Quarter(found[t].position.x - head.x,
                                         found[t].position.y - head.y)
                   IN /\ QuartersApart(angle, toward) <=
                            QuartersApart(s.angle, toward)
                      /\ toward = s.angle => angle = s.angle
             /\ t \notin alive => angle = (s.angle + turn) % 4

\* the third snake pass is about to start with no atom alive: one snake
\* holds a target that another snake has eaten, the other has no target
C14_Witness ==
    /\ pc = "snakes"
    /\ frames = 3
    /\ Len(snakes) = 2
    /\ \A j \in 1 .. Len(atoms) : atoms[j].state # 0
    /\ snakes[1].target # 0
    /\ snakes[2].target = 0

\* the wrapped new head of snakes[i] in the snake pass that is being taken:
\* one step of SPEED from the old head along the angle the update left
NewHeadOf(i) ==
    WrappedHead(snakes[i].positions[1], snakes'[i].angle, width, height)

\* the atoms within eating distance of the new head of snakes[i] that are
\* alive when its update comes: alive at the start of the pass and not
\* eaten by a snake before it in the list
RECURSIVE HitsOf(_)
HitsOf(i) ==
    { j \in 1 .. Len(atoms) :
         /\ atoms[j].state = 0
         /\ \A n \in 1 .. i - 1 : j \notin HitsOf(n)
         /\ Closer(NewHeadOf(i), atoms[j].position,
                   atoms[j].radius + Px(SNAKE_SIZE) \div 2) }

\* no black hole within shrink distance of the new head of snakes[i]
ClearOfHoles(i) ==
    \A h \in 1 .. Len(blackHoles') :
       ~Closer(NewHeadOf(i), blackHoles'[h].position,
               blackHoles'[h].radius + Px(SNAKE_SIZE) \div 2)

\* C15: in a snake pass, every alive atom within eating distance (atom
\* radius + half SNAKE_SIZE) of a snake's wrapped new head becomes
\* disintegrating and every other atom is left as it was; the snake's
\* snakeLength grows by 5 for each normal and 15 for each special atom it
\* ate (read where no black hole shrinks it in the same update), and its
\* target is null when it ate.
C15_EatAtoms ==
    [][(pc = "snakes" /\ ~fault') =>
          /\ \A j \in 1 .. Len(atoms) :
                IF \E i \in 1 .. Len(snakes) : j \in HitsOf(i)
                THEN /\ atoms'[j].state = 1
                     /\ atoms'[j].position = atoms[j].position
                     /\ atoms'[j].type = atoms[j].type
                ELSE atoms'[j] = atoms[j]
          /\ \A i \in 1 .. Len(snakes) :
                LET normal == { j \in HitsOf(i) : atoms[j].type = "normal" }
                    special == { j \in HitsOf(i) : atoms[j].type = "special" }
                IN /\ HitsOf(i) # {} => snakes'[i].target = 0
                   /\ ClearOfHoles(i) =>
                         snakes'[i].snakeLength =
                            snakes[i].snakeLength + 5 * Cardinality(normal)
                               + 15 * Cardinality(special)]_vars

\* the second snake pass is over: the first snake, which ate the normal
\* atom in the frame before and still has its head over it, did not grow
\* again, and the clicked snake has eaten the special atom
C15_Witness ==
    /\ pc = "photons"
    /\ frames = 2
    /\ Len(snakes) = 2
    /\ atoms[1].type = "normal" /\ atoms[1].state = 2
    /\ atoms[2].type = "special" /\ atoms[2].state = 1
    /\ snakes[1].snakeLength = 45
    /\ Closer(snakes[1].positions[1], atoms[1].position,
              atoms[1].radius + Px(SNAKE_SIZE) \div 2)
    /\ snakes[2].snakeLength = 55
    /\ snakes[2].target = 0

\* C16: after every Snake.update, whatever grow and shrink did inside it,
\* positions is no longer than snakeLength and snakeLength is at least 10.
C16_TruncatedToLength ==
    \A i \in 1 .. Len(snakes) :
       /\ Len(snakes[i].positions) <= snakes[i].snakeLength
       /\ snakes[i].snakeLength >= 10

\* an update has just ended for a snake that grew by eating a special atom
\* and has since been shrunk by the black hole down to the floor
C16_Witness ==
    /\ pc = "photons"
    /\ Len(blackHoles) > 0
    /\ \E i \in 1 .. Len(snakes) :
          /\ snakes[i].snakeLength = 10
          /\ Len(snakes[i].positions) < 10
          /\ Len(snakes[i].positions) > 0

\* the identities the Photon objects of a run can have
PhotonIds == 1 .. NumAtoms * SpecialPhotonCount

\* C17: as frames keep being run, every photon that is in the list is
\* later out of it, the ones passed over in a pass included, and the list
\* ends up empty and stays empty once no atom disintegrates any more.
C17_PhotonsLeave ==
    /\ \A id \in PhotonIds :
          (IndexOfId(photons, id) # 0) ~> (IndexOfId(photons, id) = 0)
    /\ <>[](Len(photons) = 0)

\* photons have been made and one of them was passed over in a pass in
\* which another was removed
C17_Witness ==
    /\ pc = "portals"
    /\ Len(removed) > 0
    /\ \E k \in 1 .. Len(photons) : \E n \in 1 .. Len(photons) :
          photons[k].life < photons[n].life

\* the atoms of a type that are no longer alive
NotAlive(list, type) ==
    { j \in 1 .. Len(list) : list[j].type = type /\ list[j].state # 0 }

\* C18: an atom is disintegrated at most once: an atom that is not alive
\* never becomes alive again and keeps its start time, and the photons ever
\* made are 5 for each normal and 15 for each special atom that is not
\* alive; there are as many black holes as special atoms that are not
\* alive; no black hole leaves the list; the atom list keeps its length.
C18_DisintegratedOnce ==
    [][/\ \A j \in 1 .. Len(atoms) :
             atoms[j].state # 0 =>
                /\ atoms'[j].state >= atoms[j].state
                /\ atoms'[j].startTime = atoms[j].startTime
       /\ nextId' - 1 = 5 * Cardinality(NotAlive(atoms', "normal"))
                           + 15 * Cardinality(NotAlive(atoms', "special"))
       /\ Len(blackHoles') = Cardinality(NotAlive(atoms', "special"))
       /\ Len(blackHoles') >= Len(blackHoles)
       /\ \A h \in 1 .. Len(blackHoles) :
             blackHoles'[h].position = blackHoles[h].position
       /\ Len(atoms') = Len(atoms)
       /\ Len(atoms) = NumAtoms]_vars

\* the second snake pass is over and two snakes have their heads within
\* eating distance of a special atom that was eaten in the frame before
C18_Witness ==
    /\ pc = "photons"
    /\ frames = 2
    /\ Len(snakes) = 2
    /\ atoms[1].type = "special"
    /\ atoms[1].state # 0
    /\ \A i \in 1 .. 2 :
          Closer(snakes[i].positions[1], atoms[1].position,
                 atoms[1].radius + Px(SNAKE_SIZE) \div 2)
    /\ Len(blackHoles) = 1
    /\ nextId = 16

\* C19: no update reads the head and no grow reads the tail of an empty
\* positions array (no TypeError is thrown), and between the passes of a
\* frame, and between frames, every snake has at least one position.
C19_PositionsNeverEmpty ==
    /\ ~fault
    /\ \A i \in 1 .. Len(snakes) : Len(snakes[i].positions) > 0

\* a snake pass is about to update a snake that the black hole has shrunk
\* to the one position its last update put in front
C19_Witness ==
    /\ pc = "snakes"
    /\ Len(blackHoles) > 0
    /\ \E i \in 1 .. Len(snakes) :
          /\ Len(snakes[i].positions) = 1
          /\ snakes[i].snakeLength = 10
====
